---- MODULE Spec2Model ----
(***************************************************************************)
(* Model of the design-pattern task manager:                               *)
(*   - composite.js : TaskLeaf / TaskGroup, the composite task tree        *)
(*   - singleton.js : ConfigurationManager, the configuration store        *)
(*   - strategy.js  : sort / filter strategies and TaskSorterFilterer      *)
(* JavaScript objects are references into a heap; the heap of the          *)
(* composite is the variable children (each group's children array).       *)
(***************************************************************************)
EXTENDS Integers, Sequences, FiniteSets, TLC

VARIABLES children, status, expanded, lastGroupId,
          config, dispatched, lastCfg, instance, refs, others,
          currentSortStrategy, currentFilterStrategy, lastStr

treeVars == <<children, status, expanded, lastGroupId>>
cfgVars  == <<config, dispatched, lastCfg, instance, refs, others>>
strVars  == <<currentSortStrategy, currentFilterStrategy, lastStr>>
vars     == <<children, status, expanded, lastGroupId, config, dispatched, lastCfg,
              instance, refs, others, currentSortStrategy, currentFilterStrategy, lastStr>>

(***************************************************************************)
(* Bounds                                                                  *)
(***************************************************************************)
\* most child entries the groups hold together (add is not called beyond it)
MaxEntries == 3

(***************************************************************************)
(* composite.js : the components                                           *)
(***************************************************************************)
\* TaskGroup objects (new TaskGroup / TaskGroupFactory.createGroup), named
\* after the id the factory gives them
Groups == {"g1", "g2", "g3"}

\* TaskLeaf objects (new TaskLeaf(task))
Leaves == {"a", "b", "c"}

Components == Groups \cup Leaves

\* Task objects wrapped by the leaves
Tasks == {"t1", "t2"}

\* TaskLeaf.task : leaves a and b wrap the same task, as two groups built by
\* createGroupFromFilter over the same task list do
task == [l \in Leaves |-> IF l = "c" THEN "t2" ELSE "t1"]

\* Task.id, given to the Task constructor
TaskId == [t \in Tasks |-> IF t = "t1" THEN 11 ELSE 12]

\* TaskComponent.getId(): a group's id is the factory's counter value, a leaf's
\* id is its task's id
getId(c) ==
    IF c \in Groups THEN (IF c = "g1" THEN 1 ELSE IF c = "g2" THEN 2 ELSE 3)
    ELSE TaskId[task[c]]

Ids == {getId(c) : c \in Components}

\* the ids remove and getChild are called with: every id in use and one that
\* no component has
IdArgs == Ids \cup {99}

isComposite(c) == c \in Groups

\* the value null
Null == "null"

\* the statuses setGroupStatus is called with: one the UI uses and a free-form
\* one (Task.setStatus accepts any string)
GroupStatusArgs == {"Concluída", "Arquivada"}

\* A call either returns a value or throws RangeError (call stack exhausted).
\* The engine's stack is far deeper than any acyclic structure over the groups
\* the factory has made, so the recursion budget is one frame per group made:
\* it is exceeded exactly on a cyclic structure.
StackLimit == lastGroupId

Ret(v) == [err |-> FALSE, val |-> v]
RangeError == [err |-> TRUE, val |-> Null]

\* a getTaskCount that counts a group's children without descending
getTaskCountShallow(ch, c, d) ==
    IF ~isComposite(c) THEN [err |-> FALSE, val |-> 1]
    ELSE [err |-> FALSE, val |-> Len(ch[c])]

\* TaskLeaf.getTaskCount / TaskGroup.getTaskCount (reduce over the children)
RECURSIVE getTaskCountD(_, _, _)
getTaskCountD(ch, c, d) ==
    IF ~isComposite(c) THEN Ret(1)
    ELSE IF d = 0 THEN [err |-> TRUE, val |-> 0]
    ELSE LET s == ch[c]
             acc[i \in 0..Len(s)] ==
                 IF i = 0 THEN Ret(0)
                 ELSE LET sum == acc[i-1]
                          r == getTaskCountD(ch, s[i], d - 1)
                      IN IF sum.err THEN sum
                         ELSE IF r.err THEN r ELSE Ret(sum.val + r.val)
         IN acc[Len(s)]

getTaskCount(ch, c) == getTaskCountD(ch, c, StackLimit)

\* a getAllLeaves that collects the direct leaves only
getAllLeavesShallow(ch, g, d) ==
    [err |-> FALSE, val |-> SelectSeq(ch[g], LAMBDA child : ~isComposite(child))]

\* TaskGroup.getAllLeaves
RECURSIVE getAllLeavesD(_, _, _)
getAllLeavesD(ch, g, d) ==
    IF d = 0 THEN [err |-> TRUE, val |-> <<>>]
    ELSE LET s == ch[g]
             acc[i \in 0..Len(s)] ==
                 IF i = 0 THEN Ret(<<>>)
                 ELSE LET leaves == acc[i-1]
                          r == getAllLeavesD(ch, s[i], d - 1)
                      IN IF leaves.err THEN leaves
                         ELSE IF isComposite(s[i])
                         THEN IF r.err THEN r ELSE Ret(leaves.val \o r.val)
                         ELSE Ret(Append(leaves.val, s[i]))
         IN acc[Len(s)]

getAllLeaves(ch, g) == getAllLeavesD(ch, g, StackLimit)

\* TaskLeaf.getChild / TaskGroup.getChild: child by child, the child itself
\* and then, if it is a group, its subtree
RECURSIVE getChildD(_, _, _, _)
getChildD(ch, c, id, d) ==
    IF ~isComposite(c) THEN Ret(Null)
    ELSE IF d = 0 THEN RangeError
    ELSE LET s == ch[c]
             \* look(i): the outcome of the loop from child i on
             look[i \in 1..(Len(s) + 1)] ==
                 IF i > Len(s) THEN Ret(Null)
                 ELSE IF getId(s[i]) = id THEN Ret(s[i])
                 ELSE IF isComposite(s[i])
                      THEN LET r == getChildD(ch, s[i], id, d - 1)
                           IN IF r.err \/ r.val # Null THEN r ELSE look[i + 1]
                      ELSE look[i + 1]
         IN look[1]

getChild(ch, c, id) == getChildD(ch, c, id, StackLimit)

\* this.children.filter(child => child.getId() !== id)
filterOut(s, id) == SelectSeq(s, LAMBDA child : getId(child) # id)

\* a remove that goes on into every child group, whatever it has removed
RECURSIVE removeAllD(_, _, _, _)
removeAllD(ch, c, id, d) ==
    IF ~isComposite(c) THEN [err |-> FALSE, val |-> FALSE, ch |-> ch]
    ELSE IF d = 0 THEN [err |-> TRUE, val |-> FALSE, ch |-> ch]
    ELSE LET ch1 == [ch EXCEPT ![c] = filterOut(@, id)]
             s == ch1[c]
             loop[i \in 0..Len(s)] ==
                 IF i = 0
                 THEN [err |-> FALSE, val |-> Len(s) # Len(ch[c]), ch |-> ch1]
                 ELSE IF loop[i-1].err THEN loop[i-1]
                 ELSE LET r == removeAllD(loop[i-1].ch, s[i], id, d - 1)
                      IN [err |-> r.err, val |-> loop[i-1].val \/ r.val,
                          ch |-> r.ch]
         IN loop[Len(s)]

\* TaskLeaf.remove / TaskGroup.remove: the result and the heap it leaves
RECURSIVE removeD(_, _, _, _)
removeD(ch, c, id, d) ==
    IF ~isComposite(c) THEN [err |-> FALSE, val |-> FALSE, ch |-> ch]
    ELSE IF d = 0 THEN [err |-> TRUE, val |-> FALSE, ch |-> ch]
    ELSE LET initialLength == Len(ch[c])
             ch1 == [ch EXCEPT ![c] = filterOut(@, id)]
             s == ch1[c]
             \* loop[i]: the for loop from child i on (a child's remove that
             \* returns false has removed nothing)
             loop[i \in 1..(Len(s) + 1)] ==
                 IF i > Len(s) THEN [err |-> FALSE, val |-> FALSE, ch |-> ch1]
                 ELSE IF isComposite(s[i])
                      THEN LET r == removeD(ch1, s[i], id, d - 1)
                           IN IF r.err \/ r.val THEN r ELSE loop[i + 1]
                      ELSE loop[i + 1]
         IN IF Len(s) = initialLength
            THEN loop[1]
            ELSE [err |-> FALSE, val |-> TRUE, ch |-> ch1]

remove(ch, c, id) == removeD(ch, c, id, StackLimit)

\* an add that pushes the group instead of the component
pushThis(ch, g, c) == [ch EXCEPT ![g] = Append(@, g)]

\* TaskGroup.add: this.children.push(component)
push(ch, g, c) == [ch EXCEPT ![g] = Append(@, c)]

\* TaskLeaf.setStatus: this.task.setStatus(status)
setStatus(st, leaf, s) == [st EXCEPT ![task[leaf]] = s]

\* TaskLeaf.getStatus
getStatus(st, leaf) == st[task[leaf]]

\* TaskGroup.setGroupStatus: getAllLeaves().forEach(leaf => leaf.setStatus(status));
\* a RangeError of getAllLeaves leaves every status as it was
setGroupStatus(ch, st, g, s) ==
    LET lv == getAllLeaves(ch, g)
        each[i \in 0..Len(lv.val)] ==
            IF i = 0 THEN st ELSE setStatus(each[i-1], lv.val[i], s)
    IN IF lv.err THEN st ELSE each[Len(lv.val)]

\* the factory has made the groups g1 and g2; a group not made yet is shown
\* as its constructor will leave it (no children, expanded)
InitTree ==
    /\ children = [g \in Groups |-> <<>>]
    /\ status = [t \in Tasks |-> "Pendente"]
    /\ expanded = [g \in Groups |-> TRUE]
    /\ lastGroupId = 2

\* the component exists: a leaf, or a group the factory has made
Created(c) == c \in Leaves \/ getId(c) <= lastGroupId

\* the child entries of the whole heap
Entries(ch) == UNION {{<<g, i>> : i \in 1..Len(ch[g])} : g \in Groups}

\* g.add(c)
Add(g, c) ==
    /\ Created(g) /\ Created(c)
    /\ Cardinality(Entries(children)) < MaxEntries
    /\ UNCHANGED <<status, expanded, lastGroupId, cfgVars, strVars>>
    /\ children' = push(children, g, c)

\* g.remove(id)
Remove(g, id) ==
    /\ Created(g)
    /\ UNCHANGED <<status, expanded, lastGroupId, cfgVars, strVars>>
    /\ children' = remove(children, g, id).ch

\* g.setGroupStatus(s)
SetGroupStatus(g, s) ==
    /\ Created(g)
    /\ UNCHANGED <<children, expanded, lastGroupId, cfgVars, strVars>>
    /\ status' = setGroupStatus(children, status, g, s)

\* g.toggleExpanded()
ToggleExpanded(g) ==
    /\ Created(g)
    /\ UNCHANGED <<children, status, lastGroupId, cfgVars, strVars>>
    /\ expanded' = [expanded EXCEPT ![g] = ~@]

\* add and remove calls only
NextShape ==
    \/ \E g \in Groups, c \in Components : Add(g, c)
    \/ \E g \in Groups, id \in IdArgs : Remove(g, id)

\* add, remove and setGroupStatus calls
NextStatus ==
    \/ \E g \in Groups, c \in Components : Add(g, c)
    \/ \E g \in Groups, id \in IdArgs : Remove(g, id)
    \/ \E g \in Groups, s \in GroupStatusArgs : SetGroupStatus(g, s)

\* every call on the groups
NextTree ==
    \/ \E g \in Groups, c \in Components : Add(g, c)
    \/ \E g \in Groups, id \in IdArgs : Remove(g, id)
    \/ \E g \in Groups, s \in GroupStatusArgs : SetGroupStatus(g, s)
    \/ \E g \in Groups : ToggleExpanded(g)

(***************************************************************************)
(* Structure of the heap (used to state properties, not part of the code)  *)
(***************************************************************************)
Range(s) == {s[i] : i \in 1..Len(s)}

\* the children of the groups in S
Kids(ch, S) == UNION {Range(ch[x]) : x \in S \cap Groups}

RECURSIVE Reach(_, _, _)
Reach(ch, S, n) ==
    LET T == S \cup Kids(ch, S)
    IN IF n = 0 \/ T = S THEN S ELSE Reach(ch, T, n - 1)

\* every component below c (c itself only if it lies on a cycle)
Descendants(ch, c) == Reach(ch, Kids(ch, {c}), Cardinality(Components))

\* how many times c occurs in the children arrays
Occurrences(ch, c) ==
    Cardinality({e \in Entries(ch) : ch[e[1]][e[2]] = c})

Acyclic(ch) == \A g \in Groups : g \notin Descendants(ch, g)

\* a cycle can be reached from c
CycleBelow(ch, c) ==
    \E g \in ({c} \cup Descendants(ch, c)) \cap Groups : g \in Descendants(ch, g)

IsTree(ch) == Acyclic(ch) /\ \A c \in Components : Occurrences(ch, c) <= 1

(***************************************************************************)
(* composite.js : the composite under a caller that keeps membership a     *)
(* tree, with a third group from the factory                               *)
(***************************************************************************)
\* TaskGroupFactory.createGroup: new TaskGroup(++TaskGroupFactory.lastGroupId)
CreateGroup ==
    /\ lastGroupId < Cardinality(Groups)
    /\ lastGroupId' = lastGroupId + 1
    /\ UNCHANGED <<children, status, expanded, cfgVars, strVars>>

\* g.add(c), called only with a component that is a child of no group and is
\* neither g nor above g
AddDetached(g, c) ==
    /\ Created(g) /\ Created(c)
    /\ Occurrences(children, c) = 0
    /\ c # g
    /\ g \notin Descendants(children, c)
    /\ UNCHANGED <<status, expanded, lastGroupId, cfgVars, strVars>>
    /\ children' = push(children, g, c)

\* createGroup, tree-keeping add calls and remove calls
NextKeptTree ==
    \/ CreateGroup
    \/ \E g \in Groups, c \in Components : AddDetached(g, c)
    \/ \E g \in Groups, id \in IdArgs : Remove(g, id)

(***************************************************************************)
(* singleton.js : ConfigurationManager                                     *)
(* A JavaScript value is written as the text of its literal ("3000",       *)
(* "true", "null", "undefined"); "function" is a function object.          *)
(* this.config is an object literal: a function from its own property      *)
(* names to values, whose prototype is Object.prototype.                   *)
(***************************************************************************)
\* the settings the constructor and resetToDefaults write
DefaultConfig ==
    [theme |-> "light", language |-> "pt-BR", showCompletedTasks |-> "true",
     autoSave |-> "true", notificationTimeout |-> "3000",
     maxNotificationsHistory |-> "10", defaultTaskColor |-> "blue",
     defaultTaskType |-> "personal", sidebarCollapsed |-> "false"]

DefaultKeys == DOMAIN DefaultConfig

\* property names every object literal inherits from Object.prototype
\* (those the model's calls use; each one's value is a function)
ObjectPrototypeKeys == {"toString", "constructor"}

\* obj[key]: the own property, else the inherited one, else undefined
Get(obj, key) ==
    IF key \in DOMAIN obj THEN obj[key]
    ELSE IF key \in ObjectPrototypeKeys THEN "function"
    ELSE "undefined"

\* key in obj: own or inherited
In(key, obj) == key \in DOMAIN obj \/ key \in ObjectPrototypeKeys

\* obj[key] = value: writes (or creates) the own property
Put(obj, key, value) ==
    [k \in DOMAIN obj \cup {key} |-> IF k = key THEN value ELSE obj[k]]

\* ConfigurationManager.getConfig
getConfig(cfg, key) == Get(cfg, key)

\* ConfigurationManager.notifyConfigChange: the CustomEvent dispatched on the
\* document; seen is this.config at the time of the dispatch, which a listener
\* reads through getConfig / getAllConfig
notifyConfigChange(cfg, key, value) ==
    <<[type |-> "configChanged", key |-> key, value |-> value, seen |-> cfg]>>

\* ConfigurationManager.setConfig: the value returned, the settings and the
\* events dispatched
setConfigNotifyFirst(cfg, key, value) ==
    IF In(key, cfg)
    THEN [ret |-> TRUE, config |-> Put(cfg, key, value),
          events |-> notifyConfigChange(cfg, key, value)]
    ELSE [ret |-> FALSE, config |-> cfg, events |-> <<>>]

setConfig(cfg, key, value) ==
    IF In(key, cfg)
    THEN LET cfg1 == Put(cfg, key, value)
         IN [ret |-> TRUE, config |-> cfg1,
             events |-> notifyConfigChange(cfg1, key, value)]
    ELSE [ret |-> FALSE, config |-> cfg, events |-> <<>>]

\* ConfigurationManager.resetToDefaults
resetToDefaults(cfg) ==
    [config |-> DefaultConfig,
     events |-> notifyConfigChange(DefaultConfig, "all", "null")]

\* the keys and values the model calls setConfig with
KeyArgs == {"theme", "sidebarCollapsed", "unknownKey", "toString", "constructor"}
ValueArgs == {"dark", "true"}

NoCfgCall == [op |-> "none", key |-> "", value |-> "", ret |-> FALSE]

\* most references to a ConfigurationManager the program holds (new
\* ConfigurationManager() is not called beyond it)
MaxRefs == 3

\* the ConfigurationManager objects there can be, in the order of their
\* creation; the first is the one the module's last line creates
ManagerObjs == <<"cm1", "cm2", "cm3", "cm4", "cm5">>

\* a constructor that builds a new manager at every call
constructAlways(inst, oth) ==
    LET this == ManagerObjs[Cardinality(DOMAIN oth) + 2]
    IN [obj |-> this, instance |-> this,
        others |-> [o \in DOMAIN oth \cup {this} |->
                      IF o = this THEN DefaultConfig ELSE oth[o]]]

\* new ConfigurationManager(): the object the expression yields, the static
\* ConfigurationManager.instance and the settings of the managers other than
\* the first, given the static and those settings before the call
construct(inst, oth) ==
    IF inst # Null
    THEN [obj |-> inst, instance |-> inst, others |-> oth]
    ELSE LET this == ManagerObjs[Cardinality(DOMAIN oth) + 2]
         IN [obj |-> this, instance |-> this,
             others |-> [o \in DOMAIN oth \cup {this} |->
                           IF o = this THEN DefaultConfig ELSE oth[o]]]

\* this.config of the manager a reference points to; config is that of the
\* first manager
configOf(obj, cfg, oth) == IF obj = ManagerObjs[1] THEN cfg ELSE oth[obj]

\* the module's last line has constructed configManager: it is the first
\* manager, the static instance and the one reference held
InitCfg ==
    /\ config = DefaultConfig
    /\ dispatched = <<>>
    /\ lastCfg = NoCfgCall
    /\ instance = ManagerObjs[1]
    /\ refs = <<ManagerObjs[1]>>
    /\ others = [o \in {} |-> DefaultConfig]

\* configManager.setConfig(key, value)
SetConfig(key, value) ==
    LET r == setConfig(config, key, value)
    IN /\ config' = r.config
       /\ dispatched' = r.events
       /\ lastCfg' = [op |-> "setConfig", key |-> key, value |-> value,
                      ret |-> r.ret]
       /\ UNCHANGED <<instance, refs, others, treeVars, strVars>>

\* configManager.resetToDefaults()
ResetToDefaults ==
    LET r == resetToDefaults(config)
    IN /\ config' = r.config
       /\ dispatched' = r.events
       /\ lastCfg' = [NoCfgCall EXCEPT !.op = "resetToDefaults"]
       /\ UNCHANGED <<instance, refs, others, treeVars, strVars>>

NextCfg ==
    \/ \E key \in KeyArgs, value \in ValueArgs : SetConfig(key, value)
    \/ ResetToDefaults

\* another new ConfigurationManager(); the reference it yields is kept
Construct ==
    LET r == construct(instance, others)
    IN /\ Len(refs) < MaxRefs
       /\ UNCHANGED <<config, treeVars, strVars>>
       /\ instance' = r.instance
       /\ others' = r.others
       /\ refs' = Append(refs, r.obj)
       /\ dispatched' = <<>>
       /\ lastCfg' = [NoCfgCall EXCEPT !.op = "new"]

\* refs[i].setConfig(key, value)
SetConfigVia(i, key, value) ==
    LET obj == refs[i]
        r == setConfig(configOf(obj, config, others), key, value)
    IN /\ UNCHANGED <<instance, refs, treeVars, strVars>>
       /\ IF obj = ManagerObjs[1]
          THEN config' = r.config /\ others' = others
          ELSE config' = config /\ others' = [others EXCEPT ![obj] = r.config]
       /\ dispatched' = r.events
       /\ lastCfg' = [op |-> "setConfig", key |-> key, value |-> value,
                      ret |-> r.ret]

\* refs[i].resetToDefaults()
ResetToDefaultsVia(i) ==
    LET obj == refs[i]
        r == resetToDefaults(configOf(obj, config, others))
    IN /\ UNCHANGED <<instance, refs, treeVars, strVars>>
       /\ IF obj = ManagerObjs[1]
          THEN config' = r.config /\ others' = others
          ELSE config' = config /\ others' = [others EXCEPT ![obj] = r.config]
       /\ dispatched' = r.events
       /\ lastCfg' = [NoCfgCall EXCEPT !.op = "resetToDefaults"]

\* constructions and mutations through any reference held
NextSingleton ==
    \/ Construct
    \/ \E i \in 1..Len(refs), key \in KeyArgs, value \in ValueArgs :
          SetConfigVia(i, key, value)
    \/ \E i \in 1..Len(refs) : ResetToDefaultsVia(i)

(***************************************************************************)
(* strategy.js : sort and filter strategies, TaskSorterFilterer            *)
(* A strategy key is a string; it is written as the sequence of the pieces *)
(* between its ':' characters (<<"type", "Pessoal">> is 'type:Pessoal'),   *)
(* which is what split(':') returns.                                       *)
(***************************************************************************)
\* longest task list process is called with
MaxTasks == 3

\* Task objects (a WorkTask and two PersonalTasks) that process is given
TaskPool ==
    { [id |-> 1, title |-> "Banana", description |-> "fruit",
       status |-> "Pendente", type |-> "Trabalho", createdAt |-> 200],
      [id |-> 2, title |-> "Apple", description |-> "shop",
       status |-> "Concluída", type |-> "Pessoal", createdAt |-> 100],
      [id |-> 3, title |-> "Apple", description |-> "pie",
       status |-> "Arquivada", type |-> "Pessoal", createdAt |-> 200] }

TaskLists == UNION {[1..n -> TaskPool] : n \in 0..MaxTasks}

\* a JavaScript number: NaN or an integer
Num(n) == [nan |-> FALSE, n |-> n]
NaN == [nan |-> TRUE, n |-> 0]
Minus(x, y) == IF x.nan \/ y.nan THEN NaN ELSE Num(x.n - y.n)

\* String.prototype.localeCompare on the titles and type labels of the model:
\* their place in the collation order
Collation == <<"Apple", "Banana", "Pessoal", "Trabalho">>
Place(str) == CHOOSE i \in 1..Len(Collation) : Collation[i] = str
localeCompare(x, y) ==
    Num(IF Place(x) < Place(y) THEN -1 ELSE IF Place(x) > Place(y) THEN 1 ELSE 0)

\* statusOrder of StatusPendingFirstStrategy and StatusCompletedFirstStrategy;
\* a status with no entry reads undefined, and undefined - n is NaN
statusOrderPending == [s \in {"Pendente", "Em Andamento", "Concluída"} |->
    IF s = "Pendente" THEN 0 ELSE IF s = "Em Andamento" THEN 1 ELSE 2]
statusOrderCompleted == [s \in {"Pendente", "Em Andamento", "Concluída"} |->
    IF s = "Concluída" THEN 0 ELSE IF s = "Em Andamento" THEN 1 ELSE 2]
Entry(table, s) == IF s \in DOMAIN table THEN Num(table[s]) ELSE NaN

\* the comparator each sort strategy hands to Array.prototype.sort
compare(class, x, y) ==
    CASE class = "DateNewestFirstStrategy" -> Num(y.createdAt - x.createdAt)
      [] class = "DateOldestFirstStrategy" -> Num(x.createdAt - y.createdAt)
      [] class = "AlphabeticalAZStrategy" -> localeCompare(x.title, y.title)
      [] class = "AlphabeticalZAStrategy" -> localeCompare(y.title, x.title)
      [] class = "StatusPendingFirstStrategy" ->
            Minus(Entry(statusOrderPending, x.status),
                  Entry(statusOrderPending, y.status))
      [] class = "StatusCompletedFirstStrategy" ->
            Minus(Entry(statusOrderCompleted, x.status),
                  Entry(statusOrderCompleted, y.status))
      [] class = "TaskTypeStrategy" -> localeCompare(x.type, y.type)

\* Array.prototype.sort reads the comparator's result as a number, NaN as +0
cmp(class, x, y) == LET v == compare(class, x, y) IN IF v.nan THEN 0 ELSE v.n

\* the comparator is consistent on the elements of s (ECMAScript, Array.prototype.sort)
Consistent(class, s) ==
    LET S == Range(s)
    IN /\ \A x \in S : cmp(class, x, x) = 0
       /\ \A x, y \in S : /\ cmp(class, x, y) < 0 <=> cmp(class, y, x) > 0
                          /\ cmp(class, x, y) = 0 <=> cmp(class, y, x) = 0
       /\ \A x, y, z \in S :
            /\ cmp(class, x, y) = 0 /\ cmp(class, y, z) = 0 => cmp(class, x, z) = 0
            /\ cmp(class, x, y) < 0 /\ cmp(class, y, z) < 0 => cmp(class, x, z) < 0

Perms(n) == {p \in [1..n -> 1..n] : \A i, j \in 1..n : p[i] = p[j] => i = j}

Reorder(s, p) == [i \in 1..Len(s) |-> s[p[i]]]

\* a sort that places each element in front of the placed elements equal to it
stableSortTiesFirst(class, s) ==
    LET placed[i \in 0..Len(s)] ==
            IF i = 0 THEN <<>>
            ELSE LET r == placed[i-1]
                     k == Cardinality({j \in 1..Len(r) : cmp(class, r[j], s[i]) < 0})
                 IN SubSeq(r, 1, k) \o <<s[i]>> \o SubSeq(r, k + 1, Len(r))
    IN placed[Len(s)]

\* a stable sort under a consistent comparator: each element in turn goes
\* behind the elements already placed that do not sort after it
stableSort(class, s) ==
    LET placed[i \in 0..Len(s)] ==
            IF i = 0 THEN <<>>
            ELSE LET r == placed[i-1]
                     k == Cardinality({j \in 1..Len(r) : cmp(class, r[j], s[i]) <= 0})
                 IN SubSeq(r, 1, k) \o <<s[i]>> \o SubSeq(r, k + 1, Len(r))
    IN placed[Len(s)]

\* [...tasks].sort(comparator): the arrays it can return. With a consistent
\* comparator the sort is stable and its result unique; otherwise the order
\* is implementation-defined
arraySort(class, s) ==
    IF Consistent(class, s)
    THEN {stableSort(class, s)}
    ELSE {Reorder(s, p) : p \in Perms(Len(s))}

\* a strategy object: its class and its constructor argument
Obj(class, arg) == [class |-> class, arg |-> arg]
Undefined == Obj("undefined", "")
\* a function inherited from Object.prototype
FunctionObj == Obj("Function", "")

\* this.sortStrategies
sortStrategies ==
    [k \in {"date-newest", "date-oldest", "alpha-az", "alpha-za",
            "status-pending", "status-complete", "type"} |->
       CASE k = "date-newest" -> Obj("DateNewestFirstStrategy", "")
         [] k = "date-oldest" -> Obj("DateOldestFirstStrategy", "")
         [] k = "alpha-az" -> Obj("AlphabeticalAZStrategy", "")
         [] k = "alpha-za" -> Obj("AlphabeticalZAStrategy", "")
         [] k = "status-pending" -> Obj("StatusPendingFirstStrategy", "")
         [] k = "status-complete" -> Obj("StatusCompletedFirstStrategy", "")
         [] k = "type" -> Obj("TaskTypeStrategy", "")]

\* this.filterStrategies
filterStrategies ==
    [k \in {"all", "pending", "in-progress", "completed"} |->
       CASE k = "all" -> Obj("ShowAllFilterStrategy", "")
         [] k = "pending" -> Obj("PendingFilterStrategy", "")
         [] k = "in-progress" -> Obj("InProgressFilterStrategy", "")
         [] k = "completed" -> Obj("CompletedFilterStrategy", "")]

\* registry[strategyKey]: an own entry, else a property inherited from
\* Object.prototype, else undefined (no property name of the model holds ':')
Lookup(registry, key) ==
    IF Len(key) = 1 /\ key[1] \in DOMAIN registry THEN registry[key[1]]
    ELSE IF Len(key) = 1 /\ key[1] \in ObjectPrototypeKeys THEN FunctionObj
    ELSE Undefined

Truthy(x) == x # Undefined

\* strategyKey.startsWith(prefix + ':')
startsWith(key, prefix) == Len(key) >= 2 /\ key[1] = prefix

\* prefix + ':' + str, for a string str given by its pieces
Compound(prefix, str) == <<prefix>> \o str

\* String.prototype.toLowerCase on the strings of the model
toLowerCase(str) ==
    CASE str = "Banana" -> "banana" [] str = "Apple" -> "apple"
      [] str = "APP" -> "app" [] OTHER -> str

\* String.prototype.includes on the strings of the model
includes(hay, needle) ==
    needle = "" \/ hay = needle \/ <<hay, needle>> \in {<<"apple", "app">>}

\* a "show all" that filters like PendingFilterStrategy
ShowAllFilterAsPending(tasks) == SelectSeq(tasks, LAMBDA t : t.status = "Pendente")

\* ShowAllFilterStrategy.filter
ShowAllFilter(tasks) == tasks

\* PendingFilterStrategy / InProgressFilterStrategy / CompletedFilterStrategy
StatusFilter(tasks, wanted) == SelectSeq(tasks, LAMBDA t : t.status = wanted)

\* TypeFilterStrategy.filter
TypeFilter(tasks, type) == SelectSeq(tasks, LAMBDA t : t.type = type)

\* SearchFilterStrategy.filter (searchText is lower case already)
SearchFilter(tasks, searchText) ==
    SelectSeq(tasks, LAMBDA t :
        \/ includes(toLowerCase(t.title), searchText)
        \/ includes(toLowerCase(t.description), searchText))

\* strategy.filter(tasks), for a filter strategy object
filter(strategy, tasks) ==
    CASE strategy.class = "ShowAllFilterStrategy" -> ShowAllFilter(tasks)
      [] strategy.class = "PendingFilterStrategy" -> StatusFilter(tasks, "Pendente")
      [] strategy.class = "InProgressFilterStrategy" ->
            StatusFilter(tasks, "Em Andamento")
      [] strategy.class = "CompletedFilterStrategy" ->
            StatusFilter(tasks, "Concluída")
      [] strategy.class = "TypeFilterStrategy" -> TypeFilter(tasks, strategy.arg)
      [] strategy.class = "SearchFilterStrategy" -> SearchFilter(tasks, strategy.arg)

\* TaskSorterFilterer.setSortStrategy: the value returned and the current
\* sort strategy it leaves
setSortStrategy(current, key) ==
    IF Truthy(Lookup(sortStrategies, key))
    THEN [ret |-> TRUE, strategy |-> Lookup(sortStrategies, key)]
    ELSE [ret |-> FALSE, strategy |-> current]

\* TaskSorterFilterer.setFilterStrategy
setFilterStrategy(current, key) ==
    IF Truthy(Lookup(filterStrategies, key))
    THEN [ret |-> TRUE, strategy |-> Lookup(filterStrategies, key)]
    ELSE IF startsWith(key, "type")
    THEN [ret |-> TRUE, strategy |-> Obj("TypeFilterStrategy", key[2])]
    ELSE IF startsWith(key, "search")
    THEN [ret |-> TRUE,
          strategy |-> Obj("SearchFilterStrategy", toLowerCase(key[2]))]
    ELSE [ret |-> FALSE, strategy |-> current]

\* calling .filter or .sort on a function object: it is not a function
TypeError == [err |-> TRUE, val |-> <<>>]

\* TaskSorterFilterer.process: the outcomes it can have
process(sortStrategy, filterStrategy, tasks) ==
    IF filterStrategy = FunctionObj THEN {TypeError}
    ELSE LET filteredTasks == filter(filterStrategy, tasks)
         IN IF sortStrategy = FunctionObj THEN {TypeError}
            ELSE {[err |-> FALSE, val |-> r] :
                     r \in arraySort(sortStrategy.class, filteredTasks)}

\* TaskSorterFilterer.getAvailableFilterStrategies: the keys it lists
getAvailableFilterStrategies == DOMAIN filterStrategies

\* the keys the model calls setSortStrategy and setFilterStrategy with
SortKeyArgs ==
    {<<k>> : k \in DOMAIN sortStrategies} \cup {<<"priority">>, <<"toString">>}
FilterKeyArgs ==
    {<<k>> : k \in DOMAIN filterStrategies}
    \cup {<<"urgent">>, <<"constructor">>, <<"type">>,
          Compound("type", <<"Pessoal">>), Compound("type", <<"Pessoal", "x">>),
          Compound("search", <<"APP">>)}

NoStrCall == [op |-> "none", key |-> <<>>, ret |-> FALSE, input |-> <<>>,
              output |-> <<>>, err |-> FALSE]

\* new TaskSorterFilterer()
InitStr ==
    /\ currentSortStrategy = sortStrategies["date-newest"]
    /\ currentFilterStrategy = filterStrategies["all"]
    /\ lastStr = NoStrCall

\* sorter.setSortStrategy(key)
SetSortStrategy(key) ==
    LET r == setSortStrategy(currentSortStrategy, key)
    IN /\ currentSortStrategy' = r.strategy
       /\ lastStr' = [NoStrCall EXCEPT !.op = "setSortStrategy", !.key = key,
                                       !.ret = r.ret]
       /\ UNCHANGED <<currentFilterStrategy, treeVars, cfgVars>>

\* sorter.setFilterStrategy(key)
SetFilterStrategy(key) ==
    LET r == setFilterStrategy(currentFilterStrategy, key)
    IN /\ currentFilterStrategy' = r.strategy
       /\ lastStr' = [NoStrCall EXCEPT !.op = "setFilterStrategy", !.key = key,
                                       !.ret = r.ret]
       /\ UNCHANGED <<currentSortStrategy, treeVars, cfgVars>>

\* sorter.process(tasks)
Process(tasks) ==
    \E r \in process(currentSortStrategy, currentFilterStrategy, tasks) :
       /\ lastStr' = [NoStrCall EXCEPT !.op = "process", !.input = tasks,
                                       !.output = r.val, !.err = r.err]
       /\ UNCHANGED <<currentSortStrategy, currentFilterStrategy, treeVars, cfgVars>>

NextStr ==
    \/ \E key \in SortKeyArgs : SetSortStrategy(key)
    \/ \E key \in FilterKeyArgs : SetFilterStrategy(key)
    \/ \E tasks \in TaskLists : Process(tasks)

(***************************************************************************)
(* Specifications: the three parts share no state, each is run on its own; *)
(* the composite is also run under its add / remove calls alone and under  *)
(* add / remove / setGroupStatus                                           *)
(***************************************************************************)
Init == InitTree /\ InitCfg /\ InitStr

SpecTree == Init /\ [][NextTree]_vars
SpecTreeShape == Init /\ [][NextShape]_vars
SpecTreeStatus == Init /\ [][NextStatus]_vars
SpecKeptTree == Init /\ [][NextKeptTree]_vars
SpecCfg == Init /\ [][NextCfg]_vars
SpecSingleton == Init /\ [][NextSingleton]_vars
SpecStr == Init /\ [][NextStr]_vars

(***************************************************************************)
(* Properties of the composite tree                                        *)
(***************************************************************************)
\* C1: on every tree, for every id that getChild finds under the root,
\* remove(id) on the root followed by getChild(id) on it returns null
C1_RemoveThenGetChildNull ==
    [][\A g \in Groups, id \in IdArgs :
          (/\ IsTree(children)
           /\ getChild(children, g, id).val # Null
           /\ Remove(g, id))
          => getChild(children', g, id) = Ret(Null)]_vars

\* C2: a group's getTaskCount() is the length of its getAllLeaves() (both
\* overflow the stack together on a cyclic structure); a leaf counts 1 and an
\* empty group 0
C2_CountEqualsLeaves ==
    /\ \A g \in Groups :
          LET n == getTaskCount(children, g)
              lv == getAllLeaves(children, g)
          IN /\ n.err = lv.err
             /\ ~n.err => n.val = Len(lv.val)
             /\ children[g] = <<>> => n = Ret(0)
    /\ \A l \in Leaves : getTaskCount(children, l) = Ret(1)

\* a nested group holding a leaf, counted from the root after setGroupStatus
\* and toggleExpanded have acted
C2_Witness ==
    /\ "g2" \in Range(children["g1"])
    /\ children["g2"] # <<>>
    /\ getTaskCount(children, "g1") = Ret(2)
    /\ Len(getAllLeaves(children, "g1").val) = 2
    /\ ~expanded["g1"]
    /\ status["t1"] = "Arquivada"

\* every recursive operation returns on every group
Terminates(ch) ==
    \A g \in Groups :
       /\ ~getTaskCount(ch, g).err
       /\ ~getAllLeaves(ch, g).err
       /\ \A id \in IdArgs : ~getChild(ch, g, id).err /\ ~remove(ch, g, id).err

\* c is a child of no group
Detached(ch, c) == Occurrences(ch, c) = 0

\* C7 as stated: in every reachable state membership is a tree and the
\* recursive operations terminate
C7_AlwaysTree == IsTree(children) /\ Terminates(children)

\* C7 amended: a tree stays a tree, on which the recursive operations
\* terminate, under remove and under every add(c) whose c is a child of no
\* group and is neither the receiving group nor one of its ancestors
C7_TreeUnderDetachedAdds ==
    [][IsTree(children) =>
         /\ \A g \in Groups, c \in Components :
               (/\ Add(g, c)
                /\ Detached(children, c)
                /\ c # g
                /\ g \notin Descendants(children, c))
               => IsTree(children') /\ Terminates(children')
         /\ \A g \in Groups, id \in IdArgs :
               Remove(g, id) => IsTree(children') /\ Terminates(children')]_vars

\* a tree two levels deep, built by adds of detached components
C7_Witness ==
    /\ IsTree(children)
    /\ children["g1"] = <<"a", "g2">>
    /\ children["g2"] = <<"b">>

\* the tasks of the leaves below g
TasksBelow(ch, g) == {task[l] : l \in Descendants(ch, g) \cap Leaves}

\* C8: setGroupStatus(s) on g gives status s to every leaf of g.getAllLeaves(),
\* at any depth, changes no children array and no task count, and changes the
\* status of no task outside g's subtree (on a cyclic g the call overflows the
\* stack before it sets anything)
C8_SetGroupStatus ==
    [][\A g \in Groups, s \in GroupStatusArgs :
          SetGroupStatus(g, s) =>
             /\ children' = children
             /\ \A h \in Groups :
                   getTaskCount(children', h) = getTaskCount(children, h)
             /\ IF CycleBelow(children, g)
                THEN status' = status
                ELSE /\ \A l \in Descendants(children, g) \cap Leaves :
                           getStatus(status', l) = s
                     /\ \A l \in Range(getAllLeaves(children', g).val) :
                           getStatus(status', l) = s
                     /\ \A t \in Tasks \ TasksBelow(children, g) :
                           status'[t] = status[t]]_vars

\* a leaf two levels below g1 has the new status, the task outside has not
C8_Witness ==
    /\ children["g1"] = <<"g2">>
    /\ children["g2"] = <<"a">>
    /\ status["t1"] = "Concluída"
    /\ status["t2"] = "Pendente"

\* the direct children of g that have the id
DirectMatches(ch, g, id) == {c \in Range(ch[g]) : getId(c) = id}

\* C13: on every tree, getChild(id) on a group returns a direct child with
\* that id whenever there is one, whatever lies below the child groups in
\* front of it, and returns null exactly when no descendant has the id
C13_DirectChildrenFirst ==
    IsTree(children) =>
       \A g \in Groups, id \in IdArgs :
          LET found == getChild(children, g, id)
          IN /\ ~found.err
             /\ DirectMatches(children, g, id) # {} =>
                   found.val \in DirectMatches(children, g, id)
             /\ found.val = Null <=>
                   \A c \in Descendants(children, g) : getId(c) # id

\* some component below c has the id
HasBelow(ch, c, id) == \E x \in Descendants(ch, c) : getId(x) = id

\* the group c and the groups below it
GroupsFrom(ch, c) == ({c} \cup Descendants(ch, c)) \cap Groups

\* the groups whose children array differs between two heaps
Changed(ch, ch2) == {h \in Groups : ch2[h] # ch[h]}

\* s without the components that have the id, the others in their order
Without(s, id) == SelectSeq(s, LAMBDA x : getId(x) # id)

\* where in s the first group stands that has the id below it (0: nowhere)
FirstHolder(ch, s, id) ==
    LET at == {i \in 1..Len(s) : isComposite(s[i]) /\ HasBelow(ch, s[i], id)}
    IN IF at = {} THEN 0 ELSE CHOOSE i \in at : \A j \in at : i <= j

\* C14: on a tree, g.remove(id) returns true exactly when a component below
\* g had the id. With a direct child of that id, only g's children array
\* changes and loses its components of that id; with none, only one array
\* changes, it lies in the first child group that has the id below it, and
\* every sibling group behind it keeps its subtree. A false return leaves
\* every array as it was; what remains in a changed array keeps its order;
\* remove on a leaf returns false and changes nothing
C14_RemoveContract ==
    [][\A g \in Groups, id \in IdArgs :
          Remove(g, id) =>
             LET r == remove(children, g, id)
                 first == FirstHolder(children, children[g], id)
             IN /\ ~r.err
                /\ r.val <=> HasBelow(children, g, id)
                /\ ~r.val => children' = children
                /\ \A h \in Changed(children, children') :
                      /\ children'[h] = Without(children[h], id)
                      /\ Changed(children, children') = {h}
                /\ DirectMatches(children, g, id) # {} =>
                      Changed(children, children') = {g}
                /\ (r.val /\ DirectMatches(children, g, id) = {}) =>
                      /\ first # 0
                      /\ Changed(children, children')
                            \subseteq GroupsFrom(children, children[g][first])
                      /\ \A j \in (first + 1)..Len(children[g]) :
                            \A h \in GroupsFrom(children, children[g][j]) :
                               children'[h] = children[h]
                /\ \A l \in Leaves :
                      remove(children, l, id)
                         = [err |-> FALSE, val |-> FALSE, ch |-> children]]_vars

\* the root g3 holds the groups g1 and g2 in this order; leaf a is out of g1,
\* leaf b of the same id is still in g2
C14_Witness ==
    /\ lastGroupId = 3
    /\ children["g3"] = <<"g1", "g2">>
    /\ children["g1"] = <<>>
    /\ children["g2"] = <<"b">>

(***************************************************************************)
(* Properties of the configuration store                                   *)
(***************************************************************************)
\* C4: setConfig returns true only for one of the nine default keys; for any
\* other key it returns false, changes no setting, adds no key and
\* dispatches nothing; so the setting names are always the nine defaults
C4_SetConfigOnlyDefaultKeys ==
    [][\A key \in KeyArgs, value \in ValueArgs :
          SetConfig(key, value) =>
             /\ lastCfg'.ret => key \in DefaultKeys
             /\ key \notin DefaultKeys =>
                   ~lastCfg'.ret /\ config' = config /\ dispatched' = <<>>
             /\ DOMAIN config' = DefaultKeys]_vars

\* C5: after resetToDefaults, getConfig returns the documented default for
\* each of the nine default keys and undefined for any other key
C5_ResetRestoresDefaults ==
    lastCfg.op = "resetToDefaults" =>
       /\ \A k \in DefaultKeys : getConfig(config, k) = DefaultConfig[k]
       /\ getConfig(config, "notificationTimeout") = "3000"
       /\ \A k \in KeyArgs \ DefaultKeys : getConfig(config, k) = "undefined"

\* C6: a successful setConfig(key, value) dispatches exactly one configChanged
\* event with that key and value, resetToDefaults exactly one with key 'all',
\* each when the settings already hold the new values; a failed setConfig
\* dispatches nothing
C6_OneNotification ==
    /\ (lastCfg.op = "setConfig" /\ lastCfg.ret) =>
          /\ dispatched = <<[type |-> "configChanged", key |-> lastCfg.key,
                             value |-> lastCfg.value, seen |-> config]>>
          /\ getConfig(config, lastCfg.key) = lastCfg.value
    /\ (lastCfg.op = "setConfig" /\ ~lastCfg.ret) => dispatched = <<>>
    /\ lastCfg.op = "resetToDefaults" =>
          /\ dispatched = <<[type |-> "configChanged", key |-> "all",
                             value |-> "null", seen |-> config]>>
          /\ config = DefaultConfig

\* setConfig('theme', 'dark') has succeeded and its one event is out
C6_Witness ==
    /\ lastCfg = [op |-> "setConfig", key |-> "theme", value |-> "dark",
                  ret |-> TRUE]
    /\ Len(dispatched) = 1
    /\ dispatched[1].seen["theme"] = "dark"

\* what getConfig(key) returns through the reference refs[j], in the state
\* with the given references and settings
getConfigVia(rf, cfg, oth, j, key) == getConfig(configOf(rf[j], cfg, oth), key)

\* C12: every new ConfigurationManager() after the first yields the first
\* manager and changes no setting, and a value that setConfig writes through
\* one reference is what getConfig returns through every reference held
C12_SingleStore ==
    [][/\ Construct =>
             /\ refs'[Len(refs')] = ManagerObjs[1]
             /\ instance' = ManagerObjs[1]
             /\ \A j \in 1..Len(refs'), key \in KeyArgs :
                   getConfigVia(refs', config', others', j, key)
                      = getConfigVia(refs, config, others, 1, key)
       /\ \A i \in 1..Len(refs), key \in KeyArgs, value \in ValueArgs :
             (SetConfigVia(i, key, value) /\ lastCfg'.ret) =>
                \A j \in 1..Len(refs') :
                   getConfigVia(refs', config', others', j, key) = value]_vars

\* a manager constructed after setConfig('theme', 'dark') reads 'dark', as
\* do the two references held before
C12_Witness ==
    /\ lastCfg.op = "new"
    /\ Len(refs) = 3
    /\ \A j \in 1..3 : getConfigVia(refs, config, others, j, "theme") = "dark"

(***************************************************************************)
(* Properties of the sort / filter context                                 *)
(***************************************************************************)
\* key names an own entry of the registry
Registered(registry, key) == Len(key) = 1 /\ key[1] \in DOMAIN registry

\* out holds the tasks of in, each as often
IsPermutation(out, in) ==
    /\ Len(out) = Len(in)
    /\ \A t \in TaskPool :
          Cardinality({i \in 1..Len(out) : out[i] = t})
             = Cardinality({i \in 1..Len(in) : in[i] = t})

\* the current strategies and what process returns are as before the step
StrategiesUnchanged ==
    /\ currentSortStrategy' = currentSortStrategy
    /\ currentFilterStrategy' = currentFilterStrategy
    /\ \A tasks \in TaskLists :
          process(currentSortStrategy', currentFilterStrategy', tasks)
             = process(currentSortStrategy, currentFilterStrategy, tasks)

\* C3: setSortStrategy / setFilterStrategy with a key that is not registered
\* (and, for filters, not a 'type:' or 'search:' key) returns false and leaves
\* both current strategies, and so the result of process, as they were
C3_UnknownKeyRejected ==
    [][/\ \A key \in SortKeyArgs :
             (~Registered(sortStrategies, key) /\ SetSortStrategy(key))
             => ~lastStr'.ret /\ StrategiesUnchanged
       /\ \A key \in FilterKeyArgs :
             (/\ ~Registered(filterStrategies, key)
              /\ ~startsWith(key, "type")
              /\ ~startsWith(key, "search")
              /\ SetFilterStrategy(key))
             => ~lastStr'.ret /\ StrategiesUnchanged]_vars

\* C9: with filter 'all' and one of the seven registered sort strategies
\* current, process returns a permutation of its input
C9_ProcessAllIsPermutation ==
    (/\ lastStr.op = "process"
     /\ currentFilterStrategy = filterStrategies["all"]
     /\ currentSortStrategy \in {sortStrategies[k] : k \in DOMAIN sortStrategies})
    => ~lastStr.err /\ IsPermutation(lastStr.output, lastStr.input)

\* three tasks whose statuses (one of them unknown to the rank table) make the
\* comparator inconsistent have been processed under 'status-pending' and
\* came back in another order
C9_Witness ==
    /\ lastStr.op = "process"
    /\ currentFilterStrategy = filterStrategies["all"]
    /\ currentSortStrategy = sortStrategies["status-pending"]
    /\ Len(lastStr.input) = 3
    /\ {t.status : t \in Range(lastStr.input)}
          = {"Pendente", "Concluída", "Arquivada"}
    /\ lastStr.output # lastStr.input
    /\ ~lastStr.err

\* the category strings setFilterStrategy('type:' + c) is given
CategoryArgs == {<<"Pessoal">>, <<"Pessoal", "x">>}

\* C10: setFilterStrategy('type:' + c) returns true, a following process
\* returns exactly the input tasks whose type is c, and the enumeration still
\* lists the four static keys only
C10_TypeFilterExact ==
    [][\A c \in CategoryArgs :
          SetFilterStrategy(Compound("type", c)) =>
             /\ lastStr'.ret
             /\ \A tasks \in TaskLists :
                   \A r \in process(currentSortStrategy', currentFilterStrategy',
                                    tasks) :
                      /\ ~r.err
                      /\ IsPermutation(r.val,
                            SelectSeq(tasks, LAMBDA t : <<t.type>> = c))
             /\ getAvailableFilterStrategies
                   = {"all", "pending", "in-progress", "completed"}]_vars

\* s back to front
Reverse(s) == [i \in 1..Len(s) |-> s[Len(s) + 1 - i]]

\* the tasks of s with the given title, in the order of s
WithTitle(s, title) == SelectSeq(s, LAMBDA t : t.title = title)

\* the tasks of s title by title in the given order of titles, the tasks of
\* one title in the order of s
InTitleOrder(s, titles) ==
    LET upTo[i \in 0..Len(titles)] ==
            IF i = 0 THEN <<>> ELSE upTo[i-1] \o WithTitle(s, titles[i])
    IN upTo[Len(titles)]

\* two different tasks of s have the same title
TitleShared(s) ==
    \E i, j \in 1..Len(s) : s[i] # s[j] /\ s[i].title = s[j].title

\* process has returned under 'alpha-az' with every task shown
SortedAZ ==
    /\ lastStr.op = "process"
    /\ ~lastStr.err
    /\ currentFilterStrategy = filterStrategies["all"]
    /\ currentSortStrategy = sortStrategies["alpha-az"]

\* what process returns for the same input under 'alpha-za'
ResultsZA ==
    {r.val : r \in process(sortStrategies["alpha-za"], filterStrategies["all"],
                           lastStr.input)}

\* C11 as stated: 'alpha-az' yields the tasks in ascending title order and
\* 'alpha-za' on the same input yields the reverse of that result
C11_ZAIsReverseOfAZ ==
    SortedAZ =>
       /\ lastStr.output = InTitleOrder(lastStr.input, Collation)
       /\ ResultsZA = {Reverse(lastStr.output)}

\* the tasks of each title come in s in an order that reads the same in both
\* directions (so it is when no two different tasks of s have the same title)
TiesSymmetric(s) ==
    \A t \in Range(s) : WithTitle(s, t.title) = Reverse(WithTitle(s, t.title))

\* C11 amended: 'alpha-az' yields ascending and 'alpha-za' descending title
\* order, each with the tasks of one title in input order; the 'alpha-za'
\* result is the reverse of the 'alpha-az' result whenever no two different
\* tasks of the input have the same title, and in general exactly when the
\* tasks of each title read the same in both directions in the input
C11_TitleOrderStable ==
    SortedAZ =>
       /\ lastStr.output = InTitleOrder(lastStr.input, Collation)
       /\ ResultsZA = {InTitleOrder(lastStr.input, Reverse(Collation))}
       /\ ~TitleShared(lastStr.input) => ResultsZA = {Reverse(lastStr.output)}
       /\ ResultsZA = {Reverse(lastStr.output)} <=> TiesSymmetric(lastStr.input)

\* 'alpha-az' has sorted three tasks, two of them with the title Apple, and
\* kept those two in input order
C11_Witness ==
    /\ SortedAZ
    /\ Len(lastStr.input) = 3
    /\ [i \in 1..3 |-> lastStr.input[i].id] = <<1, 2, 3>>
    /\ [i \in 1..3 |-> lastStr.output[i].id] = <<2, 3, 1>>

====
